---- MODULE Spec2Model ----
(***************************************************************************)
(* State-machine model of src/src/main.rs: directory backup to, and        *)
(* restore from, a remote object store through a zip staging file.         *)
(*                                                                         *)
(* A path is a sequence of components (<<"src","s","b">> is src/s/b).      *)
(* The local filesystem `fs` maps the paths that exist to their entry.     *)
(* A zip member name is a record [path, slash]: the components of the     *)
(* name and whether the name ends with '/', as directory records do.       *)
(***************************************************************************)
EXTENDS Integers, Sequences, FiniteSets, TLC

VARIABLES
    fs,         \* local filesystem: path -> [kind, data]
    fault,      \* the filesystem error the source tree holds, if any
    buckets,    \* remote store: the buckets that exist
    objects,    \* remote store: <<bucket, key>> -> object body
    pc,         \* position inside the running invocation
    cmd,        \* parameters of the running (or last) invocation
    runs,       \* invocations started so far
    result,     \* what the last finished invocation returned
    net,        \* remote calls issued by the running (or last) invocation
    stages,     \* backup stages started by the running (or last) backup
    staging,    \* the invocation's NamedTempFile: "none", "exists", "removed"
    stagingData,\* bytes behind the staging file's handles
    stream,     \* body returned by get_object, read by the copy
    zipOut,     \* outcome of the last zip_dir call
    fs0,        \* filesystem when the running (or last) invocation started
    ensureLog   \* one record per create_bucket_if_not_exists call

vars == <<fs, fault, buckets, objects, pc, cmd, runs, result, net, stages,
          staging, stagingData, stream, zipOut, fs0, ensureLog>>

----------------------------------------------------------------------------
(* Bounds *)

\* file contents are byte strings over 1..MaxByte
MaxByte == 1
\* invocations (backup, restore, bucket provisioning) in one behaviour
MaxRuns == 2

----------------------------------------------------------------------------
(* Values *)

Ok == "Ok"
\* zip_dir's Err(ZipError::FileNotFound) for a source that is no directory
NotADirectory == "ZipError::FileNotFound"
\* by_name's Err(ZipError::FileNotFound) for a name the archive lacks
MemberNotFound == "ZipError::FileNotFound"
IoError == "io::Error"
InvalidArchive == "ZipError::InvalidArchive"
CreateBucketFailed == "SdkError<CreateBucketError>"
PutFailed == "SdkError<PutObjectError>"
GetFailed == "SdkError<GetObjectError>"
Running == "running"

\* FileOptions::unix_permissions(0o755), in decimal
UnixPermissions == 493
Deflated == "Deflated"

Contents == {<<>>} \cup {<<b>> : b \in 1..MaxByte}

File(c) == [kind |-> "file", data |-> c]
Dir == [kind |-> "dir", data |-> <<>>]
\* neither a regular file nor a directory: a broken symbolic link, a FIFO
Other == [kind |-> "other", data |-> <<>>]

SrcRoot == <<"src">>
DstRoot == <<"dst">>
Buckets == {"b1"}
TheKey == "k"
Garbage == [valid |-> FALSE, records |-> <<>>]

----------------------------------------------------------------------------
(* Paths *)

IsPrefix(p, q) == Len(p) <= Len(q) /\ SubSeq(q, 1, Len(p)) = p
Parent(p) == SubSeq(p, 1, Len(p) - 1)
Join(p, name) == p \o name

Exists(f, p) == p \in DOMAIN f
IsFile(f, p) == Exists(f, p) /\ f[p].kind = "file"
IsDir(f, p) == Exists(f, p) /\ f[p].kind = "dir"

\* strip_prefix forgotten: the member is named by its whole path
StripPrefixNone(path, prefix) == path

\* Path::strip_prefix: the components of path after prefix
StripPrefix(path, prefix) == SubSeq(path, Len(prefix) + 1, Len(path))

----------------------------------------------------------------------------
(* zip_dir: the archive writer *)

\* the two orders in which WalkDir can list the source universe: a directory
\* before its contents, siblings in either order
WalkOrders ==
    { << SrcRoot, SrcRoot \o <<"a">>, SrcRoot \o <<"s">>, SrcRoot \o <<"s", "b">> >>,
      << SrcRoot, SrcRoot \o <<"s">>, SrcRoot \o <<"s", "b">>, SrcRoot \o <<"a">> >> }

NoFault == [kind |-> "none", at |-> <<>>]

\* WalkDir yields Err for the entry flt.at ("walk": the entry itself cannot be
\* read, so neither it nor anything below it is listed; "list": the directory
\* is listed but its contents cannot be)
WalkErr(flt, p) ==
    \/ flt.kind = "walk" /\ IsPrefix(flt.at, p)
    \/ flt.kind = "list" /\ IsPrefix(flt.at, p) /\ p # flt.at

\* WalkDir::new(src).into_iter().filter_map(|e| e.ok())
Walk(src, order, f, flt) ==
    SelectSeq(order, LAMBDA p : IsPrefix(src, p) /\ Exists(f, p) /\ ~WalkErr(flt, p))

FileName(name) == [path |-> name, slash |-> FALSE]
\* add_directory stores the name with a trailing '/'
DirName(name) == [path |-> name, slash |-> TRUE]

Record(zname, bytes) ==
    [name |-> zname, perm |-> UnixPermissions, method |-> Deflated, data |-> bytes]

IsDirRecord(r) == r.name.slash

\* the else-if without its test of the name
EmitsDirectoryAny(f, path, name) == ~IsFile(f, path)

\* the else-if of the loop body: a directory record is written
EmitsDirectory(f, path, name) == ~IsFile(f, path) /\ Len(name) # 0

\* one iteration of helper's for loop; w is the writer: its records so far,
\* the scratch buffer and the result so far
HelperStep(w, path, prefix, f, flt) ==
    LET name == StripPrefix(path, prefix) IN
    IF IsFile(f, path)
    THEN LET started == Append(w.records, Record(FileName(name), <<>>)) IN
         IF flt.kind = "open" /\ flt.at = path
         THEN [w EXCEPT !.res = IoError, !.records = started]
         ELSE LET buffer == w.buffer \o f[path].data IN
              [w EXCEPT !.records = Append(w.records, Record(FileName(name), buffer)),
                        !.buffer = <<>>]
    ELSE IF EmitsDirectory(f, path, name)
    THEN [w EXCEPT !.records = Append(w.records, Record(DirName(name), <<>>))]
    ELSE w

RECURSIVE HelperLoop(_, _, _, _, _)
HelperLoop(w, it, prefix, f, flt) ==
    IF it = <<>> \/ w.res # Ok THEN w
    ELSE HelperLoop(HelperStep(w, Head(it), prefix, f, flt), Tail(it), prefix, f, flt)

\* helper: res, and what the sink holds (a valid archive once finish() ran)
helper(it, prefix, f, flt) ==
    LET w == HelperLoop([res |-> Ok, records |-> <<>>, buffer |-> <<>>], it, prefix, f, flt)
    IN [res |-> w.res, archive |-> [valid |-> w.res = Ok, records |-> w.records]]

\* zip_dir without its is_dir test
zip_dir_unchecked(src, order, f, flt) == helper(Walk(src, order, f, flt), src, f, flt)

zip_dir(src, order, f, flt) ==
    IF ~IsDir(f, src)
    THEN [res |-> NotADirectory, archive |-> [valid |-> FALSE, records |-> <<>>]]
    ELSE helper(Walk(src, order, f, flt), src, f, flt)

----------------------------------------------------------------------------
(* ZipArchive: the archive reader *)

IsDirOrTop(f, p) == Len(p) = 0 \/ IsDir(f, p)

Put(f, p, e) == [q \in DOMAIN f \cup {p} |-> IF q = p THEN e ELSE f[q]]

\* fs::create_dir_all
RECURSIVE CreateDirAll(_, _)
CreateDirAll(f, p) ==
    IF IsDirOrTop(f, p) THEN [res |-> Ok, fs |-> f]
    ELSE IF Exists(f, p) THEN [res |-> IoError, fs |-> f]
    ELSE LET up == CreateDirAll(f, Parent(p)) IN
         IF up.res # Ok THEN up ELSE [res |-> Ok, fs |-> Put(up.fs, p, Dir)]

\* File::create: creates or truncates, never creates the parent
FileCreate(f, p) ==
    IF ~IsDirOrTop(f, Parent(p)) \/ (Exists(f, p) /\ ~IsFile(f, p))
    THEN [res |-> IoError, fs |-> f]
    ELSE [res |-> Ok, fs |-> Put(f, p, File(<<>>))]

\* io::copy of a member's decompressed bytes into the created file
CopyInto(f, p, r) == Put(f, p, File(r.data))

\* one iteration of ZipArchive::extract
ExtractRecord(f, directory, r) ==
    LET outpath == Join(directory, r.name.path) IN
    IF r.name.slash THEN CreateDirAll(f, outpath)
    ELSE LET up == IF Exists(f, Parent(outpath)) THEN [res |-> Ok, fs |-> f]
                   ELSE CreateDirAll(f, Parent(outpath))
         IN IF up.res # Ok THEN up
            ELSE LET made == FileCreate(up.fs, outpath) IN
                 IF made.res # Ok THEN made
                 ELSE [res |-> Ok, fs |-> CopyInto(made.fs, outpath, r)]

RECURSIVE extract(_, _, _)
extract(f, directory, records) ==
    IF records = <<>> THEN [res |-> Ok, fs |-> f]
    ELSE LET one == ExtractRecord(f, directory, Head(records)) IN
         IF one.res # Ok THEN one ELSE extract(one.fs, directory, Tail(records))

\* ZipArchive::by_name: the records whose name is exactly the given string
by_name(records, file) ==
    {i \in 1..Len(records) : records[i].name = FileName(file)}

\* the Some(file) arm of restore's match
extract_one(f, path, records, file) ==
    LET made == FileCreate(f, Join(path, file)) IN
    IF made.res # Ok THEN made
    ELSE LET found == by_name(records, file) IN
         IF found = {} THEN [res |-> MemberNotFound, fs |-> made.fs]
         ELSE LET i == CHOOSE j \in found : TRUE IN
              [res |-> Ok, fs |-> CopyInto(made.fs, Join(path, file), records[i])]

----------------------------------------------------------------------------
(* The remote object store, as the client sees it *)

\* the probe's answer ignored: creation is always requested
create_bucket_always(bks, bucket, probeOk, createOk) ==
    [res |-> IF createOk THEN Ok ELSE CreateBucketFailed,
     calls |-> <<"head_bucket", "create_bucket">>,
     buckets |-> IF createOk THEN bks \cup {bucket} ELSE bks]

\* create_bucket_if_not_exists; probeOk and createOk are the store's answers
\* to head_bucket and create_bucket
create_bucket_if_not_exists(bks, bucket, probeOk, createOk) ==
    IF probeOk
    THEN [res |-> Ok, calls |-> <<"head_bucket">>, buckets |-> bks]
    ELSE [res |-> IF createOk THEN Ok ELSE CreateBucketFailed,
          calls |-> <<"head_bucket", "create_bucket">>,
          buckets |-> IF createOk THEN bks \cup {bucket} ELSE bks]

\* upload_object: put_object overwrites whatever the key held
upload_object(objs, bucket, key, body, putOk) ==
    IF putOk
    THEN [res |-> Ok, objects |-> Put(objs, <<bucket, key>>, body)]
    ELSE [res |-> PutFailed, objects |-> objs]

\* download_object
download_object(objs, bucket, key, getOk) ==
    IF getOk /\ <<bucket, key>> \in DOMAIN objs
    THEN [res |-> Ok, body |-> objs[<<bucket, key>>]]
    ELSE [res |-> GetFailed, body |-> Garbage]

----------------------------------------------------------------------------
(* Control flow shared by backup and restore *)

\* an error that is dropped instead of returned
TryOn(res, next, ret) == next

\* the ? operator: go on when Ok, return the error otherwise
Try(res, next, ret) == IF res = Ok THEN next ELSE ret

Fail(old, res) == IF res = Ok THEN old ELSE res

\* a staging file that outlives its owner (NamedTempFile::keep)
DropTempKeep(st) == st

\* a NamedTempFile going out of scope removes the file it owns
DropTemp(st) == IF st = "owned" THEN "removed" ELSE st

\* NamedTempFile::into_file drops the TempPath: the path is removed at once,
\* the open handles stay usable
into_file(st) == "removed"

OnDisk(st) == st \in {"owned", "leaked"}

----------------------------------------------------------------------------
(* Initial states *)

SrcPaths == {SrcRoot, SrcRoot \o <<"a">>, SrcRoot \o <<"s">>, SrcRoot \o <<"s", "b">>}

\* what a source path can hold: src/a and src/s/b a regular file, src/s a
\* regular file, a directory or a special entry
Shapes(p) ==
    IF p = SrcRoot THEN {Dir}
    ELSE IF p = SrcRoot \o <<"s">> THEN {File(c) : c \in Contents} \cup {Dir, Other}
    ELSE {File(c) : c \in Contents}

WellFormed(t) ==
    /\ \A p \in DOMAIN t : t[p] \in Shapes(p)
    /\ IsDir(t, SrcRoot)
    /\ \A p \in DOMAIN t \ {SrcRoot} : IsDir(t, Parent(p))

SrcTrees ==
    UNION { {t \in [D -> {File(c) : c \in Contents} \cup {Dir, Other}] : WellFormed(t)} :
            D \in SUBSET SrcPaths }

Faults(t) ==
    {NoFault}
    \cup {[kind |-> "walk", at |-> p] : p \in DOMAIN t \ {SrcRoot}}
    \cup {[kind |-> "open", at |-> p] : p \in {q \in DOMAIN t : IsFile(t, q)}}
    \cup {[kind |-> "list", at |-> p] : p \in {q \in DOMAIN t \ {SrcRoot} : IsDir(t, q)}}

Empty == [p \in {} |-> Dir]

DstTrees ==
    { Empty,
      (DstRoot :> Dir),
      (DstRoot :> Dir) @@ (DstRoot \o <<"s">> :> Dir),
      (DstRoot :> Dir) @@ (DstRoot \o <<"a">> :> File(<<1>>)) }

Stores ==
    { [buckets |-> {}, objects |-> Empty],
      [buckets |-> {"b1"}, objects |-> Empty],
      [buckets |-> {"b1"}, objects |-> (<<"b1", TheKey>> :> Garbage)] }

NoZip == [res |-> Running, archive |-> Garbage, src |-> <<>>]

NoCmd == [op |-> "none", path |-> <<>>, bucket |-> "", key |-> "", file |-> <<>>]

\* Option<String>: None
None == <<>>

Init ==
    /\ \E t \in SrcTrees, d \in DstTrees : fs = t @@ d
    /\ fault \in Faults([p \in DOMAIN fs \cap SrcPaths |-> fs[p]])
    /\ \E st \in Stores : buckets = st.buckets /\ objects = st.objects
    /\ pc = "idle"
    /\ cmd = NoCmd
    /\ runs = 0
    /\ result = Ok
    /\ net = <<>>
    /\ stages = <<>>
    /\ staging = "none"
    /\ stagingData = Garbage
    /\ stream = Garbage
    /\ zipOut = NoZip
    /\ fs0 = fs
    /\ ensureLog = <<>>

----------------------------------------------------------------------------
(* backup, main.rs 61-71 *)

BackupPaths == {SrcRoot, SrcRoot \o <<"a">>, SrcRoot \o <<"s">>}

Begin(c) ==
    /\ pc = "idle"
    /\ runs < MaxRuns
    /\ runs' = runs + 1
    /\ cmd' = c
    /\ result' = Running
    /\ net' = <<>>
    /\ stages' = <<>>
    /\ staging' = "none"
    /\ stagingData' = Garbage
    /\ stream' = Garbage
    /\ fs0' = fs
    /\ zipOut' = NoZip

StartBackup ==
    /\ \E path \in BackupPaths, bucket \in Buckets :
          Begin([op |-> "backup", path |-> path, bucket |-> bucket,
                 key |-> TheKey, file |-> None])
    /\ pc' = "b_ensure"
    /\ UNCHANGED <<fs, fault, buckets, objects, ensureLog>>

EnsureEntry(bucket, probeOk, r) ==
    [bucket |-> bucket, exists |-> bucket \in buckets, probe |-> probeOk,
     calls |-> r.calls, res |-> r.res]

\* line 63
BackupEnsure ==
    /\ pc = "b_ensure"
    /\ \E probeOk, createOk \in BOOLEAN :
          /\ probeOk => cmd.bucket \in buckets
          /\ LET r == create_bucket_if_not_exists(buckets, cmd.bucket, probeOk, createOk) IN
             /\ buckets' = r.buckets
             /\ net' = net \o r.calls
             /\ stages' = Append(stages, [stage |-> "ensureBucket", res |-> r.res])
             /\ ensureLog' = Append(ensureLog, EnsureEntry(cmd.bucket, probeOk, r))
             /\ result' = Fail(result, r.res)
             /\ pc' = Try(r.res, "b_temp", "b_ret")
    /\ UNCHANGED <<fs, fault, objects, cmd, runs, staging, stagingData, stream,
                   zipOut, fs0>>

\* line 65
BackupTemp ==
    /\ pc = "b_temp"
    /\ \E res \in {Ok, IoError} :
          /\ staging' = IF res = Ok THEN "owned" ELSE staging
          /\ result' = Fail(result, res)
          /\ pc' = Try(res, "b_zip", "b_ret")
    /\ UNCHANGED <<fs, fault, buckets, objects, cmd, runs, net, stages,
                   stagingData, stream, zipOut, fs0, ensureLog>>

\* line 66
BackupZip ==
    /\ pc = "b_zip"
    /\ \E order \in WalkOrders :
          LET z == zip_dir(cmd.path, order, fs, fault) IN
          /\ stagingData' = z.archive
          /\ zipOut' = [res |-> z.res, archive |-> z.archive, src |-> cmd.path]
          /\ stages' = Append(stages, [stage |-> "writeTree", res |-> z.res])
          /\ result' = Fail(result, z.res)
          /\ pc' = Try(z.res, "b_upload", "b_ret")
    /\ UNCHANGED <<fs, fault, buckets, objects, cmd, runs, net, staging, stream,
                   fs0, ensureLog>>

\* line 68
BackupUpload ==
    /\ pc = "b_upload"
    /\ \E putOk \in BOOLEAN :
          /\ putOk => cmd.bucket \in buckets
          /\ LET r == upload_object(objects, cmd.bucket, cmd.key, stagingData, putOk) IN
             /\ objects' = r.objects
             /\ net' = Append(net, "put_object")
             /\ stages' = Append(stages, [stage |-> "put", res |-> r.res])
             /\ result' = Fail(result, r.res)
             /\ pc' = Try(r.res, "b_ret", "b_ret")
    /\ UNCHANGED <<fs, fault, buckets, cmd, runs, staging, stagingData, stream,
                   zipOut, fs0, ensureLog>>

\* line 70, or the return of a ?: temp goes out of scope
BackupReturn ==
    /\ pc = "b_ret"
    /\ staging' = DropTemp(staging)
    /\ result' = IF result = Running THEN Ok ELSE result
    /\ pc' = "idle"
    /\ UNCHANGED <<fs, fault, buckets, objects, cmd, runs, net, stages,
                   stagingData, stream, zipOut, fs0, ensureLog>>

----------------------------------------------------------------------------
(* restore, main.rs 73-93 *)

\* the -f arguments tried: a top-level file, a directory, a nested file and
\* a name no source tree holds
Members == {<<"a">>, <<"s">>, <<"s", "b">>, <<"x">>}

StartRestore ==
    /\ \E bucket \in Buckets, file \in {None} \cup Members :
          Begin([op |-> "restore", path |-> DstRoot, bucket |-> bucket,
                 key |-> TheKey, file |-> file])
    /\ pc' = "r_download"
    /\ UNCHANGED <<fs, fault, buckets, objects, ensureLog>>

\* line 76
RestoreDownload ==
    /\ pc = "r_download"
    /\ \E getOk \in BOOLEAN :
          LET r == download_object(objects, cmd.bucket, cmd.key, getOk) IN
          /\ stream' = r.body
          /\ net' = Append(net, "get_object")
          /\ result' = Fail(result, r.res)
          /\ pc' = Try(r.res, "r_temp", "r_ret")
    /\ UNCHANGED <<fs, fault, buckets, objects, cmd, runs, stages, staging,
                   stagingData, zipOut, fs0, ensureLog>>

\* lines 77-80: create the staging file, reopen it, turn it into a plain File
RestoreTemp ==
    /\ pc = "r_temp"
    /\ \E new, reopen \in {Ok, IoError} :
          /\ staging' = IF new # Ok THEN staging
                        ELSE IF reopen # Ok THEN "owned"
                        ELSE into_file("owned")
          /\ result' = Fail(result, IF new # Ok THEN new ELSE reopen)
          /\ pc' = Try(new, Try(reopen, "r_copy", "r_ret"), "r_ret")
    /\ UNCHANGED <<fs, fault, buckets, objects, cmd, runs, net, stages,
                   stagingData, stream, zipOut, fs0, ensureLog>>

\* line 81
RestoreCopy ==
    /\ pc = "r_copy"
    /\ \E res \in {Ok, IoError} :
          /\ stagingData' = IF res = Ok THEN stream ELSE Garbage
          /\ result' = Fail(result, res)
          /\ pc' = Try(res, "r_open", "r_ret")
    /\ UNCHANGED <<fs, fault, buckets, objects, cmd, runs, net, stages, staging,
                   stream, zipOut, fs0, ensureLog>>

\* ZipArchive::new
OpenArchive(data) == IF data.valid THEN Ok ELSE InvalidArchive

\* line 83
RestoreOpen ==
    /\ pc = "r_open"
    /\ result' = Fail(result, OpenArchive(stagingData))
    /\ pc' = Try(OpenArchive(stagingData), "r_extract", "r_ret")
    /\ UNCHANGED <<fs, fault, buckets, objects, cmd, runs, net, stages, staging,
                   stagingData, stream, zipOut, fs0, ensureLog>>

\* lines 84-91
RestoreExtract ==
    /\ pc = "r_extract"
    /\ LET r == IF cmd.file = None
                THEN extract(fs, cmd.path, stagingData.records)
                ELSE extract_one(fs, cmd.path, stagingData.records, cmd.file)
       IN /\ fs' = r.fs
          /\ result' = Fail(result, r.res)
          /\ pc' = Try(r.res, "r_ret", "r_ret")
    /\ UNCHANGED <<fault, buckets, objects, cmd, runs, net, stages, staging,
                   stagingData, stream, zipOut, fs0, ensureLog>>

\* line 92, or the return of a ?
RestoreReturn ==
    /\ pc = "r_ret"
    /\ staging' = DropTemp(staging)
    /\ result' = IF result = Running THEN Ok ELSE result
    /\ pc' = "idle"
    /\ UNCHANGED <<fs, fault, buckets, objects, cmd, runs, net, stages,
                   stagingData, stream, zipOut, fs0, ensureLog>>

----------------------------------------------------------------------------
(* create_bucket_if_not_exists called on its own (it is pub), main.rs 130-143 *)

EnsureBucket ==
    /\ \E bucket \in Buckets :
          /\ Begin([op |-> "ensure", path |-> <<>>, bucket |-> bucket,
                    key |-> "", file |-> None])
          /\ \E probeOk, createOk \in BOOLEAN :
                /\ probeOk => bucket \in buckets
                /\ LET r == create_bucket_if_not_exists(buckets, bucket, probeOk, createOk) IN
                   /\ buckets' = r.buckets
                   /\ ensureLog' = Append(ensureLog, EnsureEntry(bucket, probeOk, r))
    /\ pc' = "idle"
    /\ UNCHANGED <<fs, fault, objects>>

----------------------------------------------------------------------------

Next ==
    \/ StartBackup
    \/ BackupEnsure
    \/ BackupTemp
    \/ BackupZip
    \/ BackupUpload
    \/ BackupReturn
    \/ StartRestore
    \/ RestoreDownload
    \/ RestoreTemp
    \/ RestoreCopy
    \/ RestoreOpen
    \/ RestoreExtract
    \/ RestoreReturn
    \/ EnsureBucket

Spec == Init /\ [][Next]_vars

----------------------------------------------------------------------------
(* Vocabulary of the properties *)

Range(q) == {q[i] : i \in DOMAIN q}

\* the last invocation was op and has returned
Done(op) == pc = "idle" /\ cmd.op = op

\* names, relative to root, of what f holds below root
RelPaths(f, root) ==
    {StripPrefix(p, root) : p \in {q \in DOMAIN f : IsPrefix(root, q) /\ q # root}}

\* d is absent from f, or an empty directory
Fresh(f, d) == \A p \in DOMAIN f : IsPrefix(d, p) => (p = d /\ IsDir(f, d))

\* the archive the restore read is what zip_dir writes for the tree at path
BuiltFrom(path, order) ==
    zip_dir(path, order, fs0, fault) = [res |-> Ok, archive |-> stagingData]

\* the tree at dst has the relative paths of the tree at path, and the bytes
\* of each of its files
SameTree(f, path, dst) ==
    /\ RelPaths(f, dst) = RelPaths(f, path)
    /\ \A n \in RelPaths(f, path) :
          IsFile(f, path \o n) =>
             IsFile(f, dst \o n) /\ f[dst \o n].data = f[path \o n].data

\* the traversal of the tree at path reports no error
NoSkip(path) == \A p \in DOMAIN fs : IsPrefix(path, p) => ~WalkErr(fault, p)

\* restore ran its match on an opened archive
Extracted == Done("restore") /\ stagingData.valid

ZipCalled == zipOut.res # Running

Records == zipOut.archive.records
DirRecords == {i \in DOMAIN Records : IsDirRecord(Records[i])}
FileRecords == {i \in DOMAIN Records : ~IsDirRecord(Records[i])}

\* the tree at root holds nothing but regular files directly under root
OnlyFiles(f, root) ==
    \A n \in RelPaths(f, root) : Len(n) = 1 /\ IsFile(f, root \o n)

----------------------------------------------------------------------------
(* C1 *)

\* C1 as stated: a backup of a path that is not a directory fails with
\* NotADirectory and has issued no remote call at all.
C1_NoRemoteCall ==
    (Done("backup") /\ ~IsDir(fs0, cmd.path)) =>
        (result = NotADirectory /\ net = <<>>)

\* C1 amended: a backup of a path that is not a directory never succeeds and
\* never issues put_object; once bucket provisioning and the creation of the
\* staging file have succeeded it fails with NotADirectory, and by then the
\* bucket probe has been issued.
C1_NoPutOnNonDirectory ==
    (Done("backup") /\ ~IsDir(fs0, cmd.path)) =>
        /\ result \in {CreateBucketFailed, IoError, NotADirectory}
        /\ "put_object" \notin Range(net)
        /\ (stages # <<>> /\ stages[1].res = Ok /\ staging = "removed")
              => result = NotADirectory
        /\ result = NotADirectory => (net # <<>> /\ net[1] = "head_bucket")

C1_Witness ==
    /\ Done("backup") /\ ~IsDir(fs0, cmd.path)
    /\ IsFile(fs0, cmd.path)
    /\ result = NotADirectory
    /\ net = <<"head_bucket", "create_bucket">>

----------------------------------------------------------------------------
(* C2 *)

\* C2 as stated: single-member extraction of a name the archive lacks fails
\* with MemberNotFound and leaves the filesystem as it was (here with the
\* directory that would hold the member present, and no directory in the
\* member's place).
C2_MissingMemberNoWrite ==
    (/\ Extracted /\ cmd.file # None
     /\ by_name(stagingData.records, cmd.file) = {}
     /\ IsDir(fs0, Parent(cmd.path \o cmd.file))
     /\ ~IsDir(fs0, cmd.path \o cmd.file)) =>
        (result = MemberNotFound /\ fs = fs0)

----------------------------------------------------------------------------
(* C3 *)

\* C3 as stated: extracting, into a fresh destination, the archive zip_dir
\* wrote for a tree yields the tree's relative paths, none missing and none
\* extra, and each file's bytes.
C3_RoundTrip ==
    (Extracted /\ cmd.file = None /\ result = Ok /\ Fresh(fs0, cmd.path)) =>
        \A path \in BackupPaths, order \in WalkOrders :
            BuiltFrom(path, order) => SameTree(fs, path, cmd.path)

\* C3 amended: the same, for a tree whose traversal reports no error; an
\* entry the traversal skips is missing from the extracted tree.
C3_RoundTripNoSkip ==
    (Extracted /\ cmd.file = None /\ result = Ok /\ Fresh(fs0, cmd.path)) =>
        \A path \in BackupPaths, order \in WalkOrders :
            (BuiltFrom(path, order) /\ NoSkip(path)) => SameTree(fs, path, cmd.path)

C3_Witness ==
    /\ Extracted /\ cmd.file = None /\ result = Ok /\ Fresh(fs0, cmd.path)
    /\ \E order \in WalkOrders : BuiltFrom(SrcRoot, order)
    /\ NoSkip(SrcRoot)
    /\ IsFile(fs, SrcRoot \o <<"a">>) /\ fs[SrcRoot \o <<"a">>].data # <<>>
    /\ IsFile(fs, SrcRoot \o <<"s", "b">>) /\ fs[SrcRoot \o <<"s", "b">>].data # <<>>
    /\ IsFile(fs, DstRoot \o <<"s", "b">>)

----------------------------------------------------------------------------
(* C4 *)

\* two calls of create_bucket_if_not_exists made one after the other
Successive(i) == i \in 2..Len(ensureLog) /\ ensureLog[i].bucket = ensureLog[i - 1].bucket

\* C4 as stated: of two successive calls for a bucket, both return without
\* error and the second issues no bucket-creation request.
C4_Idempotent ==
    \A i \in DOMAIN ensureLog :
        Successive(i) =>
            /\ ensureLog[i - 1].res = Ok
            /\ ensureLog[i].res = Ok
            /\ "create_bucket" \notin Range(ensureLog[i].calls)

\* C4 amended: after a first call that returned without error the bucket
\* exists; a second call whose probe succeeds returns without error and issues
\* no creation request; a second call whose probe fails issues one creation
\* request and returns its outcome.
C4_IdempotentWhenProbed ==
    \A i \in DOMAIN ensureLog :
        Successive(i) =>
            /\ ensureLog[i - 1].res = Ok => ensureLog[i].exists
            /\ ensureLog[i].probe =>
                  (ensureLog[i].res = Ok /\ ensureLog[i].calls = <<"head_bucket">>)
            /\ ~ensureLog[i].probe =>
                  ensureLog[i].calls = <<"head_bucket", "create_bucket">>

C4_Witness ==
    /\ Len(ensureLog) = 2 /\ Successive(2)
    /\ ~ensureLog[1].exists /\ ensureLog[1].res = Ok
    /\ ensureLog[1].calls = <<"head_bucket", "create_bucket">>
    /\ ensureLog[2].probe /\ ensureLog[2].res = Ok
    /\ ensureLog[2].calls = <<"head_bucket">>

----------------------------------------------------------------------------
(* C5 *)

\* C5: once an invocation has returned, the staging file it created is no
\* longer on disk, whatever the invocation returned.
C5_StagingRemoved == pc = "idle" => ~OnDisk(staging)

C5_Witness ==
    /\ Done("backup")
    /\ result = PutFailed
    /\ staging = "removed"

----------------------------------------------------------------------------
(* C6 *)

\* C6 as stated: single-member extraction of a file member, into an existing
\* destination directory where no directory stands in the member's place,
\* succeeds and writes the bytes the source file had.
C6_MemberFidelity ==
    (/\ Extracted /\ cmd.file # None
     /\ by_name(stagingData.records, cmd.file) # {}
     /\ IsDir(fs0, cmd.path)
     /\ ~IsDir(fs0, cmd.path \o cmd.file)) =>
        /\ result = Ok
        /\ \A path \in BackupPaths, order \in WalkOrders :
              BuiltFrom(path, order) =>
                 /\ IsFile(fs, cmd.path \o cmd.file)
                 /\ fs[cmd.path \o cmd.file].data = fs[path \o cmd.file].data

----------------------------------------------------------------------------
(* C7 *)

\* files directly under the tree of the last zip_dir call
TopFiles == {n \in RelPaths(fs, zipOut.src) : IsFile(fs, zipOut.src \o n)}

\* C7 as stated: no record of a written archive has the empty name, and a tree
\* of N files directly under the root gives 0 directory records and N file
\* records.
C7_RootNeverEmitted ==
    (ZipCalled /\ zipOut.res = Ok) =>
        /\ \A i \in DOMAIN Records : Records[i].name.path # <<>>
        /\ OnlyFiles(fs, zipOut.src) =>
              (DirRecords = {} /\ Cardinality(FileRecords) = Cardinality(TopFiles))

\* C7 amended: no record of a written archive has the empty name, and a tree
\* of N files directly under the root gives 0 directory records and one file
\* record for each file the traversal did not skip (N when it skipped none).
C7_RootNeverEmittedNoSkip ==
    (ZipCalled /\ zipOut.res = Ok) =>
        /\ \A i \in DOMAIN Records : Records[i].name.path # <<>>
        /\ OnlyFiles(fs, zipOut.src) =>
              /\ DirRecords = {}
              /\ Cardinality(FileRecords) =
                    Cardinality({n \in TopFiles : ~WalkErr(fault, zipOut.src \o n)})

C7_Witness ==
    /\ ZipCalled /\ zipOut.res = Ok
    /\ zipOut.src = SrcRoot
    /\ OnlyFiles(fs, SrcRoot)
    /\ Cardinality(TopFiles) = 2
    /\ Cardinality(FileRecords) = 2
    /\ DirRecords = {}

----------------------------------------------------------------------------
(* C8 *)

StageOrder == <<"ensureBucket", "writeTree", "put">>

\* C8: the stages of a backup start in the order ensureBucket, writeTree, put,
\* each at most once; a stage starts only after every earlier one succeeded;
\* put_object is issued at most once; the invocation returns the error of the
\* stage that failed, and Ok only after all three succeeded.
C8_StagesInOrder ==
    cmd.op = "backup" =>
        /\ Len(stages) <= Len(StageOrder)
        /\ \A i \in DOMAIN stages : stages[i].stage = StageOrder[i]
        /\ \A i \in DOMAIN stages : i < Len(stages) => stages[i].res = Ok
        /\ Cardinality({i \in DOMAIN net : net[i] = "put_object"}) <= 1
        /\ "put_object" \in Range(net) => Len(stages) = 3
        /\ (pc = "idle" /\ stages # <<>> /\ stages[Len(stages)].res # Ok)
              => result = stages[Len(stages)].res
        /\ (pc = "idle" /\ result = Ok)
              => (Len(stages) = 3 /\ stages[3].res = Ok)

C8_Witness ==
    /\ Done("backup")
    /\ Len(stages) = 2
    /\ stages[2].res = IoError
    /\ result = IoError
    /\ "put_object" \notin Range(net)

----------------------------------------------------------------------------
(* C9 *)

\* the entries of the tree at root that the fault leaves readable
Readable(root) ==
    {n \in RelPaths(fs, root) :
        /\ ~WalkErr(fault, root \o n)
        /\ ~(fault.kind = "open" /\ fault.at = root \o n)}

\* C9 as stated: with an unreadable entry under an existing root, zip_dir
\* returns Ok and the archive names every other entry and not the unreadable
\* one.
C9_EntryErrorSkipped ==
    (/\ ZipCalled /\ IsDir(fs, zipOut.src)
     /\ fault # NoFault /\ IsPrefix(zipOut.src, fault.at)) =>
        /\ zipOut.res = Ok
        /\ {Records[i].name.path : i \in DOMAIN Records} = Readable(zipOut.src)

----------------------------------------------------------------------------
(* C10 *)

\* C10 as stated: a directory record names a directory of the source tree
\* other than the root, a file record names a regular file; an entry that is
\* neither gets no directory record.
C10_RecordKinds ==
    ZipCalled =>
        \A i \in DOMAIN Records :
            /\ IsDirRecord(Records[i]) =>
                  (IsDir(fs, zipOut.src \o Records[i].name.path)
                   /\ Records[i].name.path # <<>>)
            /\ ~IsDirRecord(Records[i]) =>
                  IsFile(fs, zipOut.src \o Records[i].name.path)

====
